---- MODULE Spec2Model ----
(***************************************************************************)
(* State-machine model of the store-credit HTTP API.  Two variants of the  *)
(* server are modelled: src/index.js ("index") and src/unnamed/part_000    *)
(* ("part_000").  A handler runs in turns: the code between two awaits     *)
(* runs without interruption.  Every awaited database statement is three   *)
(* steps: the turn that issues it, the step in which the database executes *)
(* it, and the turn in which the handler resumes with its result.  The     *)
(* steps of the requests in flight interleave, and the clock may advance   *)
(* between any two of them.  The reCAPTCHA call, bcrypt.hash and           *)
(* bcrypt.compare are awaited too: the turn that resumes with their answer *)
(* is a step of its own.                                                   *)
(***************************************************************************)
EXTENDS Integers, Sequences, FiniteSets, TLC

VARIABLES
  variant,     \* which server file is running: "index" or "part_000"
  JWT_SECRET,  \* process.env.JWT_SECRET, fixed for the life of the process
  now,         \* wall clock, in seconds (jsonwebtoken's clockTimestamp)
  users,       \* table users: sequence of rows, id = position (autoincrement)
  purchases,   \* table purchases: sequence of rows
  issued,      \* the tokens handed out in responses so far (held by clients)
  reqs,        \* per connection slot: the request in flight or its answer
  kept         \* the answer a client kept from its previous request

vars == <<variant, JWT_SECRET, now, users, purchases, issued, reqs, kept>>

(***************************************************************************)
(* Bounds of the model.                                                    *)
(***************************************************************************)
MaxUsers == 3
MaxTokens == 1
MaxPurchases == 2
MaxLo == 1
MaxAmount == 1
MaxAdminDebit == 0

Slots == {1, 2}

(***************************************************************************)
(* JavaScript numbers.  A balance or an amount is an IEEE-754 double.  The *)
(* model covers the doubles that are integers of magnitude below 2^54,     *)
(* written in two limbs: value = hi * Base + lo, 0 <= lo < Base.           *)
(* Additions are exact up to 2^53 in magnitude; above, the result is       *)
(* rounded to the nearest even integer, ties to the even significand.      *)
(***************************************************************************)
Base == 2^27
HiOne == 2^26

Num(h, l) == [hi |-> h, lo |-> l]
Zero == Num(0, 0)
One == Num(0, 1)
MinusOne == Num(-1, Base - 1)
Big == Num(HiOne, 0)

Neg(a) == IF a.lo = 0 THEN Num(-a.hi, 0) ELSE Num(-a.hi - 1, Base - a.lo)
IsNeg(a) == a.hi < 0
Abs(a) == IF IsNeg(a) THEN Neg(a) ELSE a

AddExact(a, b) ==
  LET s == a.lo + b.lo
  IN Num(a.hi + b.hi + (s \div Base), s % Base)

\* round a non-negative integer below 2^54 to a double
RoundMagnitude(m) ==
  IF m.hi < HiOne \/ (m.hi = HiOne /\ m.lo = 0) THEN m
  ELSE IF m.lo % 2 = 0 THEN m
  ELSE IF m.lo % 4 = 1 THEN Num(m.hi, m.lo - 1)
  ELSE AddExact(m, One)

RoundDouble(x) ==
  IF IsNeg(x) THEN Neg(RoundMagnitude(Neg(x))) ELSE RoundMagnitude(x)

\* a + b and a - b of JavaScript
JSAdd(a, b) == RoundDouble(AddExact(a, b))
JSSub(a, b) == JSAdd(a, Neg(b))

\* the values the model lets a balance take: within MaxLo of 0 or of 2^53
Near(m, c) ==
  LET d == Abs(AddExact(m, Neg(c))) IN d.hi = 0 /\ d.lo <= MaxLo
InRange(n) == Near(Abs(n), Zero) \/ (~IsNeg(n) /\ Near(n, Big))

(***************************************************************************)
(* Values of a JSON request body: a number, a string or a missing field.   *)
(***************************************************************************)
JNum(n) == [type |-> "number", v |-> n]
JStr == [type |-> "string"]
JUndef == [type |-> "undefined"]

(***************************************************************************)
(* bcryptjs and jsonwebtoken.                                              *)
(***************************************************************************)
TokenLifetime == 3600
NoSecret == ""
TheSecret == "s3cret"

bcryptHash(password) == <<"$2a$10$", password>>
bcryptCompare(password, hash) == hash = bcryptHash(password)

Hmac(payload, secret) == <<"HS256", secret, payload>>

\* jwt.sign(claims, secret, {expiresIn}) at clock t; secret is set
jwtSign(claims, secret, expiresIn, t) ==
  LET payload == claims @@ [iat |-> t, exp |-> t + expiresIn]
  IN [kind |-> "jwt", payload |-> payload, sig |-> Hmac(payload, secret)]

\* jwt.verify(token, secret) at clock t returns the payload (TRUE) or throws
jwtVerify(token, secret, t) ==
  /\ secret # NoSecret
  /\ token.kind = "jwt"
  /\ token.sig = Hmac(token.payload, secret)
  /\ ~(t >= token.payload.exp)

NoToken == [kind |-> "none"]
Garbage == [kind |-> "garbage"]
NoUser == [none |-> TRUE]

\* what a client can put in the Authorization header
TamperExp(t) ==
  [t EXCEPT !.payload = [t.payload EXCEPT !.exp = @ + TokenLifetime]]
TamperUser(t) ==
  [t EXCEPT !.payload = [t.payload EXCEPT !.userId = IF @ = 1 THEN 2 ELSE 1]]
Forged(t) == [t EXCEPT !.sig = Hmac(t.payload, "guess")]
ClientTokens ==
  {NoToken, Garbage} \cup issued
    \cup {TamperExp(t) : t \in issued}
    \cup {TamperUser(t) : t \in issued}
    \cup {Forged(t) : t \in issued}

\* authMiddleware that decodes the token without verifying it
authMiddlewareDecodeOnly(token) ==
  IF token.kind = "none" THEN "none"
  ELSE IF token.kind = "jwt" THEN "next"
  ELSE "invalid"

\* authMiddleware: "none" and "invalid" answer 401, "next" runs the handler
authMiddleware(token) ==
  IF token.kind = "none" THEN "none"
  ELSE IF jwtVerify(token, JWT_SECRET, now) THEN "next"
  ELSE "invalid"

(***************************************************************************)
(* The database.                                                           *)
(***************************************************************************)
SelectByEmail(email) == SelectSeq(users, LAMBDA u : u.email = email)
SelectById(id) == SelectSeq(users, LAMBDA u : u.id = id)

\* the row of INSERT INTO users (..., saldo) VALUES (..., 0); isAdmin is left
\* to the column default
NewUserRow(id, body, hashedPassword) ==
  [id |-> id, name |-> body.name, lastname |-> body.lastname,
   email |-> body.email, password |-> hashedPassword,
   direction |-> body.direction, postalcode |-> body.postalcode,
   saldo |-> Zero, isAdmin |-> 0]

InsertUser(body, hashedPassword) ==
  Append(users, NewUserRow(Len(users) + 1, body, hashedPassword))

\* UpdateSaldoById whose write never lands
UpdateSaldoByIdDropped(id, newSaldo) == users

UpdateSaldoById(id, newSaldo) ==
  [i \in DOMAIN users |->
     IF users[i].id = id THEN [users[i] EXCEPT !.saldo = newSaldo]
     ELSE users[i]]

\* InsertPurchase that replaces the stored records
InsertPurchaseReplacing(row) == <<row>>

\* INSERT INTO purchases (items, payment_method, user_id, total_amount)
InsertPurchase(row) == Append(purchases, row)

UpdateSaldoByEmail(email, newSaldo) ==
  [i \in DOMAIN users |->
     IF users[i].email = email THEN [users[i] EXCEPT !.saldo = newSaldo]
     ELSE users[i]]

(***************************************************************************)
(* Requests.  A slot holds the request a connection has in flight, or its  *)
(* answer until it is delivered.                                           *)
(***************************************************************************)
NoBody == [none |-> TRUE]
NoLoc == [none |-> TRUE]
Idle ==
  [pc |-> "idle", route |-> "none", token |-> NoToken, body |-> NoBody,
   user |-> NoUser, loc |-> NoLoc, status |-> 0, resp |-> [message |-> ""],
   wrote |-> FALSE, io |-> [dbOk |-> TRUE, captcha |-> "ok"]]

\* an answer is delivered (Deliver) before the server takes its next step
Quiet == \A r \in Slots : reqs[r].pc # "done"
Free(r) == Quiet /\ reqs[r].pc = "idle"
Running(r, route, pc) == Quiet /\ reqs[r].route = route /\ reqs[r].pc = pc

\* a request as it arrives; wrote records whether one of its statements has
\* changed the users table, io what its last awaited call did (db.execute,
\* the reCAPTCHA service), loc the handler's local variables
NewReq(route, token, body) ==
  [Idle EXCEPT !.pc = "run", !.route = route, !.token = token, !.body = body]

\* res.status(status).json(resp)
Answered(q, status, resp) ==
  [q EXCEPT !.pc = "done", !.status = status, !.resp = resp]

Msg(m) == [message |-> m]

\* the answer of authMiddleware when it does not call next()
AuthReject(q) ==
  IF authMiddleware(q.token) = "none"
  THEN Answered(q, 401, Msg("No token provided"))
  ELSE Answered(q, 401, Msg("Invalid or expired token"))

Emails == {"a@x.com", "b@x.com"}
Passwords == {"p1", "p2"}
Captcha == {"ok", "fail", "throw"}

SeedAdmin ==
  [id |-> 1, name |-> "Root", lastname |-> "Admin", email |-> "a@x.com",
   password |-> bcryptHash("p1"), direction |-> "HQ", postalcode |-> "0001",
   saldo |-> Zero, isAdmin |-> 1]

\* the values the clock takes: the start, the last second of a token issued
\* at the start, and the second at which it expires
TimePoints == {0, TokenLifetime - 1, TokenLifetime}

Init ==
  /\ variant \in {"index", "part_000"}
  /\ JWT_SECRET \in {TheSecret, NoSecret}
  /\ now = 0
  /\ users = <<SeedAdmin>>
  /\ purchases = <<>>
  /\ issued = {}
  /\ reqs = [r \in Slots |-> Idle]
  /\ kept = Idle

Tick ==
  /\ Quiet
  /\ \E t \in TimePoints : t > now /\ now' = t
  /\ UNCHANGED <<variant, JWT_SECRET, users, purchases, issued, reqs, kept>>

\* a turn of the handler of slot r: it touches nothing but its own request
Turn(r, q) ==
  /\ reqs' = [reqs EXCEPT ![r] = q]
  /\ UNCHANGED <<variant, JWT_SECRET, now, users, purchases, issued, kept>>

\* the database has executed a SELECT of slot r: the handler will resume
\* at pc with the rows, or with the exception
Selected(q, pc, dbOk, rows) ==
  [q EXCEPT !.pc = pc, !.io.dbOk = dbOk,
            !.loc = [rows |-> IF dbOk THEN rows ELSE <<>>]]

(***************************************************************************)
(* POST /api/v1/user/register                                              *)
(***************************************************************************)
GoodProfile ==
  [name |-> "Ann", lastname |-> "Lee", email |-> "b@x.com", password |-> "p1",
   direction |-> "Main St 1", postalcode |-> "1000"]
RegisterBodies ==
  {[GoodProfile EXCEPT !.email = e, !.password = p] :
      e \in Emails \cup {""}, p \in {"p1", ""}}
    \cup {[GoodProfile EXCEPT !.name = ""], [GoodProfile EXCEPT !.lastname = ""],
          [GoodProfile EXCEPT !.direction = ""],
          [GoodProfile EXCEPT !.postalcode = ""]}

MissingField(body) ==
  \/ body.name = "" \/ body.lastname = "" \/ body.email = ""
  \/ body.password = "" \/ body.direction = "" \/ body.postalcode = ""

\* the duplicate test of each variant on the result of the SELECT by email:
\* index.js reads existingUser.rows.length, part_000 reads result.length,
\* which a libsql ResultSet does not have (undefined > 0 is false)
AlreadyRegistered(rows) ==
  IF variant = "index" THEN Len(rows) > 0 ELSE FALSE

\* Projection that answers the whole row
ProjectionWholeRow(user) == user

\* the user projection of the register and login answers
Projection(user) ==
  IF variant = "index"
  THEN [id |-> user.id, name |-> user.name, lastname |-> user.lastname,
        email |-> user.email, isAdmin |-> user.isAdmin]
  ELSE [id |-> user.id, name |-> user.name, lastname |-> user.lastname,
        email |-> user.email]

\* the claims both routes sign
Claims(user) ==
  IF variant = "index"
  THEN [userId |-> user.id, username |-> user.name, isAdmin |-> user.isAdmin]
  ELSE [userId |-> user.id, username |-> user.name]

\* SignSession with expiresIn: '2h'
SignSessionTwoHours(user) ==
  jwtSign(Claims(user), JWT_SECRET, 2 * TokenLifetime, now)

\* jwt.sign(claims, process.env.JWT_SECRET, { expiresIn: '1h' }), at the
\* clock of the turn that calls it
SignSession(user) == jwtSign(Claims(user), JWT_SECRET, TokenLifetime, now)

\* room for the row of one more register request, counting those in flight
WillInsert(q) ==
  /\ q.route = "register"
  /\ q.pc \in {"captcha", "select", "selected", "hash", "insert"}
Inserting == Cardinality({r \in Slots : WillInsert(reqs[r])})
RoomForUser == Len(users) + Inserting < MaxUsers
\* room among the issued tokens for this one
RoomForToken(token) == Cardinality(issued \cup {token}) <= MaxTokens

\* validation; index.js then awaits the reCAPTCHA call, part_000 issues the
\* SELECT by email
RegisterArrive(r, body) ==
  LET q == NewReq("register", NoToken, body)
  IN /\ Free(r)
     /\ ~MissingField(body) => RoomForUser
     /\ Turn(r,
          IF MissingField(body)
          THEN Answered(q, 400,
                 Msg(IF variant = "index"
                     THEN "Todos los campos son obligatorios"
                     ELSE "Faltan campos requeridos"))
          ELSE [q EXCEPT !.pc = IF variant = "index" THEN "captcha"
                                ELSE "select"])

\* index.js resumes with the reCAPTCHA answer and issues the SELECT by email
RegisterVerify(r, captcha) ==
  LET q == [reqs[r] EXCEPT !.io.captcha = captcha]
  IN /\ Running(r, "register", "captcha")
     /\ Turn(r,
          IF captcha = "throw"
          THEN Answered(q, 500, Msg("Error en el servidor"))
          ELSE IF captcha = "fail"
          THEN Answered(q, 400, Msg("Fallo en la verificacion del reCAPTCHA"))
          ELSE [q EXCEPT !.pc = "select"])

\* the database executes SELECT * FROM users WHERE email = ?
RegisterSelect(r, dbOk) ==
  /\ Running(r, "register", "select")
  /\ Turn(r, Selected(reqs[r], "selected", dbOk,
                      SelectByEmail(reqs[r].body.email)))

\* the handler resumes with the rows: duplicate test, then bcrypt.hash is
\* awaited
RegisterSelected(r) ==
  LET q == reqs[r]
  IN /\ Running(r, "register", "selected")
     /\ Turn(r,
          IF ~q.io.dbOk THEN Answered(q, 500, Msg("Error en el servidor"))
          ELSE IF AlreadyRegistered(q.loc.rows)
          THEN Answered(q, 400,
                 Msg(IF variant = "index" THEN "El usuario ya esta registrado"
                     ELSE "El correo electronico ya esta en uso"))
          ELSE [q EXCEPT !.pc = "hash"])

\* the handler resumes with the hash and issues the INSERT
RegisterHashed(r) ==
  LET q == reqs[r]
  IN /\ Running(r, "register", "hash")
     /\ Turn(r, [q EXCEPT !.pc = "insert",
                          !.loc = [hashedPassword |->
                                     bcryptHash(q.body.password)]])

\* the database executes INSERT INTO users
RegisterInsert(r, dbOk) ==
  LET q == [reqs[r] EXCEPT !.io.dbOk = dbOk]
  IN /\ Running(r, "register", "insert")
     /\ users' = IF dbOk THEN InsertUser(q.body, q.loc.hashedPassword)
                 ELSE users
     /\ reqs' = [reqs EXCEPT ![r] =
          [q EXCEPT !.pc = "inserted", !.wrote = (users' # users)]]
     /\ UNCHANGED <<variant, JWT_SECRET, now, purchases, issued, kept>>

\* the handler resumes with the result of the INSERT: the catch block answers
\* 500 when it threw; otherwise index.js issues its second SELECT and
\* part_000 answers 201
RegisterInserted(r) ==
  LET q == reqs[r]
  IN /\ Running(r, "register", "inserted")
     /\ Turn(r,
          IF ~q.io.dbOk THEN Answered(q, 500, Msg("Error en el servidor"))
          ELSE IF variant = "index" THEN [q EXCEPT !.pc = "fetch"]
          ELSE Answered(q, 201, Msg("Usuario registrado con exito")))

\* index.js: the database executes the SELECT of the new row by email
RegisterFetch(r, dbOk) ==
  /\ Running(r, "register", "fetch")
  /\ Turn(r, Selected(reqs[r], "fetched", dbOk,
                      SelectByEmail(reqs[r].body.email)))

\* index.js: the handler resumes with the row, signs a token and answers 201
RegisterFetched(r) ==
  LET q == reqs[r]
      user == q.loc.rows[1]
      token == SignSession(user)
      ok == q.io.dbOk /\ JWT_SECRET # NoSecret
  IN /\ Running(r, "register", "fetched")
     /\ ok => RoomForToken(token)
     /\ reqs' = [reqs EXCEPT ![r] =
          IF ~ok THEN Answered(q, 500, Msg("Error en el servidor"))
          ELSE Answered(q, 201, [message |-> "Registro exitoso",
                                 token |-> token,
                                 newUser |-> Projection(user)])]
     /\ issued' = IF ok THEN issued \cup {token} ELSE issued
     /\ UNCHANGED <<variant, JWT_SECRET, now, users, purchases, kept>>

(***************************************************************************)
(* POST /api/v1/user/login                                                 *)
(***************************************************************************)
LoginBodies ==
  {[email |-> e, password |-> "p1"] : e \in Emails \cup {""}}
    \cup {[email |-> "a@x.com", password |-> p] : p \in Passwords \cup {""}}

\* validation; index.js then awaits the reCAPTCHA call, part_000 issues the
\* SELECT by email
LoginArrive(r, body) ==
  LET q == NewReq("login", NoToken, body)
  IN /\ Free(r)
     /\ Turn(r,
          IF body.email = "" \/ body.password = ""
          THEN Answered(q, 400, Msg("Faltan credenciales"))
          ELSE [q EXCEPT !.pc = IF variant = "index" THEN "captcha"
                                ELSE "select"])

\* index.js resumes with the reCAPTCHA answer, whose verdict it does not
\* read, and issues the SELECT by email
LoginVerify(r, captcha) ==
  LET q == reqs[r]
  IN /\ Running(r, "login", "captcha")
     /\ Turn(r,
          IF captcha = "throw"
          THEN Answered([q EXCEPT !.io.captcha = captcha], 500,
                        Msg("Error en el servidor"))
          ELSE [q EXCEPT !.pc = "select"])

\* the database executes SELECT * FROM users WHERE email = ?
LoginSelect(r, dbOk) ==
  /\ Running(r, "login", "select")
  /\ Turn(r, Selected(reqs[r], "selected", dbOk,
                      SelectByEmail(reqs[r].body.email)))

\* the handler resumes with the rows, tests them and awaits bcrypt.compare
LoginSelected(r) ==
  LET q == reqs[r]
  IN /\ Running(r, "login", "selected")
     /\ Turn(r,
          IF ~q.io.dbOk THEN Answered(q, 500, Msg("Error en el servidor"))
          ELSE IF Len(q.loc.rows) = 0
          THEN Answered(q, 400,
                 Msg(IF variant = "index"
                     THEN "Usuario no encontrado o error al recuperar los datos"
                     ELSE "Usuario no encontrado o error al recuerar los datos"))
          ELSE [q EXCEPT !.pc = "compare", !.loc = [user |-> q.loc.rows[1]]])

\* the answer of bcrypt.compare, then jwt.sign at the clock of this turn
LoginSign(r) ==
  LET q == reqs[r]
      user == q.loc.user
      token == SignSession(user)
      next ==
        IF ~bcryptCompare(q.body.password, user.password)
        THEN Answered(q, 400, Msg("Contrasena incorrecta"))
        ELSE IF JWT_SECRET = NoSecret
        THEN Answered(q, 500, Msg("Error en el servidor"))
        ELSE Answered(q, 200, [message |-> "Login exitoso", token |-> token,
                               user |-> Projection(user)])
  IN /\ Running(r, "login", "compare")
     /\ next.status = 200 => RoomForToken(token)
     /\ reqs' = [reqs EXCEPT ![r] = next]
     /\ issued' = IF next.status = 200 THEN issued \cup {token} ELSE issued
     /\ UNCHANGED <<variant, JWT_SECRET, now, users, purchases, kept>>

(***************************************************************************)
(* POST /api/v1/user/saldo                                                 *)
(***************************************************************************)
\* the id the handler reads from req.user: index.js reads userId,
\* part_000 reads id, a claim the token does not carry
SaldoUserId(user) ==
  IF variant = "index" THEN JNum(user.userId)
  ELSE IF "id" \in DOMAIN user THEN JNum(user.id) ELSE JUndef

\* the amounts of the requests modelled, and those among them whose
\* magnitude is at most MaxAmount
Amounts == {JNum(One), JNum(MinusOne), JNum(Big), JStr}
Below(n, max) == Abs(n).hi = 0 /\ Abs(n).lo <= max
SmallAmounts == {a \in Amounts : a.type = "number" => Below(a.v, MaxAmount)}

\* Insufficient off by one: newSaldo < -1
InsufficientOffByOne(newSaldo) == IsNeg(JSAdd(newSaldo, One))

\* the non-negativity test of both debit routes: newSaldo < 0
Insufficient(newSaldo) == IsNeg(newSaldo)

\* the balances a SELECT saldo returns
SaldoRows(rows) == [i \in DOMAIN rows |-> [saldo |-> rows[i].saldo]]

\* the candidate a handler will compute from the rows of its SELECT stays
\* among the balances of the model
CandidateInRange(rows, delta) ==
  Len(rows) > 0 => InRange(JSAdd(rows[1].saldo, delta))

\* authMiddleware, typeof test, and the SELECT saldo by id is issued;
\* part_000 passes req.user.id, which is undefined: db.execute rejects the
\* argument and the catch block answers before any other request runs
SaldoArrive(r, token, amount) ==
  LET q0 == NewReq("saldo", token, [amount |-> amount])
      q == [q0 EXCEPT !.user = token.payload]
  IN /\ Free(r)
     /\ Turn(r,
          IF authMiddleware(token) # "next" THEN AuthReject(q0)
          ELSE IF amount.type # "number"
          THEN Answered(q, 400, Msg("El valor de 'amount' debe ser un numero"))
          ELSE IF SaldoUserId(q.user).type = "undefined"
          THEN Answered(q, 500, Msg("Error al actualizar saldo"))
          ELSE [q EXCEPT !.pc = "select"])

\* the database executes SELECT saldo FROM users WHERE id = ?
SaldoSelect(r, dbOk) ==
  LET q == reqs[r]
      rows == SaldoRows(SelectById(SaldoUserId(q.user).v))
  IN /\ Running(r, "saldo", "select")
     /\ dbOk => CandidateInRange(rows, q.body.amount.v)
     /\ Turn(r, Selected(q, "selected", dbOk, rows))

\* the handler resumes with the rows: 404, candidate, test, and the UPDATE
\* is issued; part_000 reads result.length and result[0] of a ResultSet,
\* which has neither: no 404, and result[0].saldo throws
SaldoSelected(r) ==
  LET q == reqs[r]
      rows == q.loc.rows
      currentSaldo == rows[1].saldo
      newSaldo == JSAdd(currentSaldo, q.body.amount.v)
  IN /\ Running(r, "saldo", "selected")
     /\ Turn(r,
          IF ~q.io.dbOk \/ variant = "part_000"
          THEN Answered(q, 500, Msg("Error al actualizar saldo"))
          ELSE IF Len(rows) = 0
          THEN Answered(q, 404, Msg("Usuario no encontrado"))
          ELSE IF Insufficient(newSaldo)
          THEN Answered(q, 400, Msg("Saldo insuficiente"))
          ELSE [q EXCEPT !.pc = "update",
                         !.loc = [userId |-> SaldoUserId(q.user).v,
                                  currentSaldo |-> currentSaldo,
                                  newSaldo |-> newSaldo]])

\* the database executes UPDATE users SET saldo = ? WHERE id = ?
SaldoWrite(r, dbOk) ==
  LET q == [reqs[r] EXCEPT !.io.dbOk = dbOk]
  IN /\ Running(r, "saldo", "update")
     /\ users' = IF dbOk THEN UpdateSaldoById(q.loc.userId, q.loc.newSaldo)
                 ELSE users
     /\ reqs' = [reqs EXCEPT ![r] =
          [q EXCEPT !.pc = "updated", !.wrote = (users' # users)]]
     /\ UNCHANGED <<variant, JWT_SECRET, now, purchases, issued, kept>>

\* the handler resumes with the result of the UPDATE and answers
SaldoAnswer(r) ==
  LET q == reqs[r]
  IN /\ Running(r, "saldo", "updated")
     /\ Turn(r,
          IF ~q.io.dbOk THEN Answered(q, 500, Msg("Error al actualizar saldo"))
          ELSE Answered(q, 200,
                        [success |-> TRUE, newSaldo |-> q.loc.newSaldo]))

(***************************************************************************)
(* POST /api/v1/user/actualizar (index.js only, no authMiddleware)         *)
(***************************************************************************)
UserIds == 1 .. MaxUsers
Totals == {JNum(One), JNum(MinusOne), JNum(Zero), JStr}

\* body test, and the SELECT saldo by id is issued
ActualizarArrive(r, userId, total_amount) ==
  LET q == NewReq("actualizar", NoToken,
                  [userId |-> userId, total_amount |-> total_amount])
  IN /\ variant = "index"
     /\ Free(r)
     /\ Turn(r,
          IF total_amount.type # "number"
          THEN Answered(q, 400, Msg("El total de la compra es invalido"))
          ELSE IF IsNeg(total_amount.v) \/ total_amount.v = Zero
          THEN Answered(q, 400, Msg("El total de la compra es invalido"))
          ELSE [q EXCEPT !.pc = "select"])

\* the database executes SELECT saldo FROM users WHERE id = ?
ActualizarSelect(r, dbOk) ==
  LET q == reqs[r]
      rows == SaldoRows(SelectById(q.body.userId))
  IN /\ Running(r, "actualizar", "select")
     /\ dbOk => CandidateInRange(rows, Neg(q.body.total_amount.v))
     /\ Turn(r, Selected(q, "selected", dbOk, rows))

\* the handler resumes with the rows: 404, candidate, test, and the UPDATE
\* is issued
ActualizarSelected(r) ==
  LET q == reqs[r]
      rows == q.loc.rows
      currentSaldo == rows[1].saldo
      newSaldo == JSSub(currentSaldo, q.body.total_amount.v)
  IN /\ Running(r, "actualizar", "selected")
     /\ Turn(r,
          IF ~q.io.dbOk
          THEN Answered(q, 500, Msg("Error al actualizar el saldo"))
          ELSE IF Len(rows) = 0
          THEN Answered(q, 404, Msg("Usuario no encontrado"))
          ELSE IF Insufficient(newSaldo)
          THEN Answered(q, 400, Msg("Saldo insuficiente"))
          ELSE [q EXCEPT !.pc = "update",
                         !.loc = [userId |-> q.body.userId,
                                  currentSaldo |-> currentSaldo,
                                  newSaldo |-> newSaldo]])

\* the database executes UPDATE users SET saldo = ? WHERE id = ?
ActualizarWrite(r, dbOk) ==
  LET q == [reqs[r] EXCEPT !.io.dbOk = dbOk]
  IN /\ Running(r, "actualizar", "update")
     /\ users' = IF dbOk THEN UpdateSaldoById(q.loc.userId, q.loc.newSaldo)
                 ELSE users
     /\ reqs' = [reqs EXCEPT ![r] =
          [q EXCEPT !.pc = "updated", !.wrote = (users' # users)]]
     /\ UNCHANGED <<variant, JWT_SECRET, now, purchases, issued, kept>>

\* the handler resumes with the result of the UPDATE and answers
ActualizarAnswer(r) ==
  LET q == reqs[r]
  IN /\ Running(r, "actualizar", "updated")
     /\ Turn(r,
          IF ~q.io.dbOk
          THEN Answered(q, 500, Msg("Error al actualizar el saldo"))
          ELSE Answered(q, 200, [message |-> "Saldo actualizado con exito",
                                 newSaldo |-> q.loc.newSaldo]))

(***************************************************************************)
(* PUT /api/v1/user/updateSaldo (index.js only)                            *)
(***************************************************************************)
UpdateBodies ==
  [email : Emails \cup {""}, saldo : {JNum(One), JNum(MinusOne), JStr}]
\* the bodies whose saldo, when it is a debit, is of at most MaxAdminDebit
CreditBodies ==
  {b \in UpdateBodies :
     (b.saldo.type = "number" /\ IsNeg(b.saldo.v)) =>
       Below(b.saldo.v, MaxAdminDebit)}

\* NotAdmin that only looks for the row
NotAdminRowOnly(userCheck) == Len(userCheck) = 0

\* the admin test on the result of SELECT isAdmin by id
NotAdmin(userCheck) == Len(userCheck) = 0 \/ userCheck[1].isAdmin # 1

\* the flags a SELECT isAdmin returns
AdminRows(rows) == [i \in DOMAIN rows |-> [isAdmin |-> rows[i].isAdmin]]

\* authMiddleware, body test, and the SELECT isAdmin by id is issued
UpdateSaldoArrive(r, token, body) ==
  LET q0 == NewReq("updateSaldo", token, body)
      q == [q0 EXCEPT !.user = token.payload]
  IN /\ variant = "index"
     /\ Free(r)
     /\ Turn(r,
          IF authMiddleware(token) # "next" THEN AuthReject(q0)
          ELSE IF body.email = "" \/ body.saldo.type # "number"
          THEN Answered(q, 400,
                 Msg("Faltan datos o el saldo no es un numero valido"))
          ELSE [q EXCEPT !.pc = "check"])

\* the database executes SELECT isAdmin FROM users WHERE id = ?
UpdateSaldoCheck(r, dbOk) ==
  /\ Running(r, "updateSaldo", "check")
  /\ Turn(r, Selected(reqs[r], "checked", dbOk,
                      AdminRows(SelectById(reqs[r].user.userId))))

\* the handler resumes with the flag: 403, or the SELECT saldo by email is
\* issued
UpdateSaldoChecked(r) ==
  LET q == reqs[r]
  IN /\ Running(r, "updateSaldo", "checked")
     /\ Turn(r,
          IF ~q.io.dbOk
          THEN Answered(q, 500, Msg("Error al actualizar saldo"))
          ELSE IF NotAdmin(q.loc.rows)
          THEN Answered(q, 403, Msg("Acceso denegado. Solo el administrador puede modificar el saldo."))
          ELSE [q EXCEPT !.pc = "readTarget"])

\* the database executes SELECT saldo FROM users WHERE email = ?
UpdateSaldoRead(r, dbOk) ==
  LET q == reqs[r]
      rows == SaldoRows(SelectByEmail(q.body.email))
  IN /\ Running(r, "updateSaldo", "readTarget")
     /\ dbOk => CandidateInRange(rows, q.body.saldo.v)
     /\ Turn(r, Selected(q, "read", dbOk, rows))

\* the handler resumes with the rows: 404, candidate, and the UPDATE is
\* issued; the candidate is not tested
UpdateSaldoCandidate(r) ==
  LET q == reqs[r]
      rows == q.loc.rows
      currentSaldo == rows[1].saldo
      newSaldo == JSAdd(currentSaldo, q.body.saldo.v)
  IN /\ Running(r, "updateSaldo", "read")
     /\ Turn(r,
          IF ~q.io.dbOk
          THEN Answered(q, 500, Msg("Error al actualizar saldo"))
          ELSE IF Len(rows) = 0
          THEN Answered(q, 404, Msg("Usuario no encontrado"))
          ELSE [q EXCEPT !.pc = "update",
                         !.loc = [currentSaldo |-> currentSaldo,
                                  newSaldo |-> newSaldo]])

\* the database executes UPDATE users SET saldo = ? WHERE email = ?
UpdateSaldoWrite(r, dbOk) ==
  LET q == [reqs[r] EXCEPT !.io.dbOk = dbOk]
  IN /\ Running(r, "updateSaldo", "update")
     /\ users' = IF dbOk THEN UpdateSaldoByEmail(q.body.email, q.loc.newSaldo)
                 ELSE users
     /\ reqs' = [reqs EXCEPT ![r] =
          [q EXCEPT !.pc = "updated", !.wrote = (users' # users)]]
     /\ UNCHANGED <<variant, JWT_SECRET, now, purchases, issued, kept>>

\* the handler resumes with the result of the UPDATE and answers
UpdateSaldoAnswer(r) ==
  LET q == reqs[r]
  IN /\ Running(r, "updateSaldo", "updated")
     /\ Turn(r,
          IF ~q.io.dbOk THEN Answered(q, 500, Msg("Error al actualizar saldo"))
          ELSE Answered(q, 200, [message |-> "Saldo actualizado correctamente",
                                 newSaldo |-> q.loc.newSaldo]))

(***************************************************************************)
(* POST /api/v1/user/compras (index.js only)                               *)
(***************************************************************************)
ComprasBodies ==
  [items : {"cart", ""}, payment_method : {"saldo", ""},
   total_amount : {JNum(One), JStr}]

\* JSON.stringify(items)
JSONStringify(v) == <<"json", v>>

\* the row of the INSERT of a compras request
PurchaseRow(q) ==
  [items |-> JSONStringify(q.body.items),
   payment_method |-> q.body.payment_method,
   user_id |-> q.user.userId, total_amount |-> q.body.total_amount.v]

\* authMiddleware, body test, and the INSERT is issued
ComprasArrive(r, token, body) ==
  LET q0 == NewReq("compras", token, body)
      q == [q0 EXCEPT !.user = token.payload]
  IN /\ variant = "index"
     /\ Free(r)
     /\ Turn(r,
          IF authMiddleware(token) # "next" THEN AuthReject(q0)
          ELSE IF body.items = "" \/ body.payment_method = ""
                  \/ body.total_amount.type # "number"
          THEN Answered(q, 400,
                 Msg("Faltan campos requeridos o datos invalidos"))
          ELSE [q EXCEPT !.pc = "insert"])

\* the database executes INSERT INTO purchases
ComprasInsert(r, dbOk) ==
  LET q == [reqs[r] EXCEPT !.io.dbOk = dbOk]
  IN /\ Running(r, "compras", "insert")
     /\ dbOk => Len(purchases) < MaxPurchases
     /\ purchases' = IF dbOk THEN InsertPurchase(PurchaseRow(q))
                     ELSE purchases
     /\ reqs' = [reqs EXCEPT ![r] = [q EXCEPT !.pc = "inserted"]]
     /\ UNCHANGED <<variant, JWT_SECRET, now, users, issued, kept>>

\* the handler resumes with the result of the INSERT and answers
ComprasAnswer(r) ==
  LET q == reqs[r]
  IN /\ Running(r, "compras", "inserted")
     /\ Turn(r,
          IF ~q.io.dbOk
          THEN Answered(q, 500, Msg("Error al registrar la compra"))
          ELSE Answered(q, 201, Msg("Compra registrada con exito")))

(***************************************************************************)
(* The server.                                                             *)
(***************************************************************************)
\* the bodies tried with a token: when authMiddleware turns the token away
\* the handler, and with it the body, is not reached, and one body is tried
BodiesFor(t, bodies) ==
  IF authMiddleware(t) = "next" THEN bodies
  ELSE {CHOOSE b \in bodies : TRUE}

\* a request arrives on a free connection, with any token a client can
\* present and a body among those given
PostSaldo(r, amounts) ==
  /\ Free(r)
  /\ \E t \in ClientTokens : \E a \in BodiesFor(t, amounts) :
       SaldoArrive(r, t, a)
PostActualizar(r) ==
  /\ Free(r)
  /\ \E u \in UserIds, a \in Totals : ActualizarArrive(r, u, a)
PutUpdateSaldo(r, bodies) ==
  /\ Free(r)
  /\ \E t \in ClientTokens : \E b \in BodiesFor(t, bodies) :
       UpdateSaldoArrive(r, t, b)
PostCompras(r) ==
  /\ Free(r)
  /\ \E t \in ClientTokens : \E b \in BodiesFor(t, ComprasBodies) :
       ComprasArrive(r, t, b)
PostRegister(r) ==
  /\ Free(r)
  /\ \E body \in RegisterBodies : RegisterArrive(r, body)
PostLogin(r) ==
  /\ Free(r)
  /\ \E body \in LoginBodies : LoginArrive(r, body)

\* the steps of a request in flight, route by route
RegisterSteps(r) ==
  \/ \E c \in Captcha : RegisterVerify(r, c)
  \/ \E dbOk \in BOOLEAN : RegisterSelect(r, dbOk)
  \/ RegisterSelected(r)
  \/ RegisterHashed(r)
  \/ \E dbOk \in BOOLEAN : RegisterInsert(r, dbOk)
  \/ RegisterInserted(r)
  \/ \E dbOk \in BOOLEAN : RegisterFetch(r, dbOk)
  \/ RegisterFetched(r)
LoginSteps(r) ==
  \/ \E c \in Captcha : LoginVerify(r, c)
  \/ \E dbOk \in BOOLEAN : LoginSelect(r, dbOk)
  \/ LoginSelected(r)
  \/ LoginSign(r)
SaldoSteps(r) ==
  \/ \E dbOk \in BOOLEAN : SaldoSelect(r, dbOk)
  \/ SaldoSelected(r)
  \/ \E dbOk \in BOOLEAN : SaldoWrite(r, dbOk)
  \/ SaldoAnswer(r)
ActualizarSteps(r) ==
  \/ \E dbOk \in BOOLEAN : ActualizarSelect(r, dbOk)
  \/ ActualizarSelected(r)
  \/ \E dbOk \in BOOLEAN : ActualizarWrite(r, dbOk)
  \/ ActualizarAnswer(r)
UpdateSaldoSteps(r) ==
  \/ \E dbOk \in BOOLEAN : UpdateSaldoCheck(r, dbOk)
  \/ UpdateSaldoChecked(r)
  \/ \E dbOk \in BOOLEAN : UpdateSaldoRead(r, dbOk)
  \/ UpdateSaldoCandidate(r)
  \/ \E dbOk \in BOOLEAN : UpdateSaldoWrite(r, dbOk)
  \/ UpdateSaldoAnswer(r)
ComprasSteps(r) ==
  \/ \E dbOk \in BOOLEAN : ComprasInsert(r, dbOk)
  \/ ComprasAnswer(r)

\* the answer leaves the server: the connection is free again
Deliver(r) ==
  /\ reqs[r].pc = "done"
  /\ reqs' = [reqs EXCEPT ![r] = Idle]
  /\ UNCHANGED <<variant, JWT_SECRET, now, users, purchases, issued, kept>>

\* every route with every body, the steps of the requests in flight
\* interleaved
Next ==
  \/ \E r \in Slots :
       \/ PostRegister(r) \/ RegisterSteps(r)
       \/ PostLogin(r) \/ LoginSteps(r)
       \/ PostSaldo(r, Amounts) \/ SaldoSteps(r)
       \/ PostActualizar(r) \/ ActualizarSteps(r)
       \/ PutUpdateSaldo(r, UpdateBodies) \/ UpdateSaldoSteps(r)
       \/ PostCompras(r) \/ ComprasSteps(r)
       \/ Deliver(r)
  \/ Tick

Spec == Init /\ [][Next]_vars

\* the routes that create accounts and sessions
NextAccounts ==
  \E r \in Slots :
    \/ PostRegister(r) \/ RegisterSteps(r)
    \/ PostLogin(r) \/ LoginSteps(r)
    \/ Deliver(r)

SpecAccounts == Init /\ [][NextAccounts]_vars

\* sessions from their issue to their expiry: register, login and a
\* protected route, with the clock
NextSession ==
  \/ \E r \in Slots :
       \/ PostRegister(r) \/ RegisterSteps(r)
       \/ PostLogin(r) \/ LoginSteps(r)
       \/ PostSaldo(r, SmallAmounts) \/ SaldoSteps(r)
       \/ Deliver(r)
  \/ Tick

SpecSession == Init /\ [][NextSession]_vars

\* either server after a registration and a login of each of the two users
InitSession ==
  /\ variant \in {"index", "part_000"}
  /\ JWT_SECRET = TheSecret
  /\ now = 0
  /\ users = <<SeedAdmin, NewUserRow(2, GoodProfile, bcryptHash("p1"))>>
  /\ purchases = <<>>
  /\ issued = {SignSession(users[i]) : i \in 1 .. 2}
  /\ reqs = [r \in Slots |-> Idle]
  /\ kept = Idle

\* the routes behind authMiddleware, with the clock
NextGate ==
  \/ \E r \in Slots :
       \/ PostSaldo(r, SmallAmounts) \/ SaldoSteps(r)
       \/ PutUpdateSaldo(r, CreditBodies) \/ UpdateSaldoSteps(r)
       \/ PostCompras(r) \/ ComprasSteps(r)
       \/ Deliver(r)
  \/ Tick

SpecGate == InitSession /\ [][NextGate]_vars

\* index.js after a registration and a login of each of the two users
InitLedger == InitSession /\ variant = "index"

\* the balance routes, two requests in flight, their steps interleaved
NextConc ==
  \E r \in Slots :
    \/ Free(r) /\ \E t \in issued, a \in Totals : SaldoArrive(r, t, a)
    \/ SaldoSteps(r)
    \/ PostActualizar(r) \/ ActualizarSteps(r)
    \/ Free(r) /\ \E t \in issued, b \in UpdateBodies :
                    UpdateSaldoArrive(r, t, b)
    \/ UpdateSaldoSteps(r)
    \/ Deliver(r)

SpecConc == InitLedger /\ [][NextConc]_vars

\* purchases next to the route that credits and debits a balance, with the
\* clock
NextShop ==
  \/ \E r \in Slots :
       \/ PostCompras(r) \/ ComprasSteps(r)
       \/ PostSaldo(r, SmallAmounts) \/ SaldoSteps(r)
       \/ PostActualizar(r) \/ ActualizarSteps(r)
       \/ Deliver(r)
  \/ Tick

SpecShop == InitLedger /\ [][NextShop]_vars

\* a client that keeps the answer of its previous request
DeliverKeep(r) ==
  /\ reqs[r].pc = "done"
  /\ reqs' = [reqs EXCEPT ![r] = Idle]
  /\ kept' = reqs[r]
  /\ UNCHANGED <<variant, JWT_SECRET, now, users, purchases, issued>>

\* POST /user/saldo requests, one after the other
NextTrip ==
  \/ PostSaldo(1, Amounts)
  \/ SaldoSteps(1)
  \/ DeliverKeep(1)

SpecTrip == InitLedger /\ [][NextTrip]_vars

\* two requests of POST saldo and PUT updateSaldo, one per connection, their
\* steps interleaved;
\* kept is the answer delivered first (no request arrives after it)
NextRace ==
  \E r \in Slots :
    \/ /\ kept = Idle
       /\ Free(r)
       /\ \/ \E t \in issued, a \in Totals : SaldoArrive(r, t, a)
          \/ \E t \in issued, b \in UpdateBodies : UpdateSaldoArrive(r, t, b)
    \/ SaldoSteps(r)
    \/ UpdateSaldoSteps(r)
    \/ DeliverKeep(r)

SpecRace == InitLedger /\ [][NextRace]_vars

(***************************************************************************)
(* Properties.                                                             *)
(***************************************************************************)
OneHour == 60 * 60
Protected(q) == q.route \in {"saldo", "updateSaldo", "compras"}
RowsOf(table, email) == SelectSeq(table, LAMBDA u : u.email = email)
BalancesOf(table, id) ==
  LET rows == SelectSeq(table, LAMBDA u : u.id = id)
  IN [i \in DOMAIN rows |-> [saldo |-> rows[i].saldo]]

\* the step in which slot r takes a request in, the one that answers it, and
\* a step of the request that slot r holds at pc
Arrives(r) == reqs[r].pc = "idle" /\ reqs'[r].pc # "idle"
Answers(r) == reqs[r].pc # "done" /\ reqs'[r].pc = "done"
StepAt(r, route, pc) ==
  reqs[r].route = route /\ reqs[r].pc = pc /\ reqs'[r] # reqs[r]

\* a token is valid at time t when the server issued it less than an hour
\* before
C5_Valid(token, t) ==
  token \in issued /\ t < token.payload.iat + OneHour

\* C1: every user's stored balance is >= 0 in every reachable state, for any
\* interleaving of POST /user/saldo, POST /user/actualizar and
\* PUT /user/updateSaldo.
C1_BalanceNeverNegative == \A i \in DOMAIN users : ~IsNeg(users[i].saldo)

\* a debit request as it is admitted: POST saldo with a valid token and a
\* negative amount, POST actualizar with a positive total
C2_Debit(q) ==
  \/ /\ q.route = "saldo"
     /\ C5_Valid(q.token, now)
     /\ q.body.amount.type = "number" /\ IsNeg(q.body.amount.v)
  \/ /\ q.route = "actualizar"
     /\ q.body.total_amount.type = "number"
     /\ ~IsNeg(q.body.total_amount.v) /\ q.body.total_amount.v # Zero
\* the user a debit request is about and its candidate on a balance
C2_User(q) == IF q.route = "saldo" THEN q.user.userId ELSE q.body.userId
C2_Candidate(q, current) ==
  IF q.route = "saldo" THEN JSAdd(current, q.body.amount.v)
  ELSE JSSub(current, q.body.total_amount.v)
C2_Step ==
  \A r \in Slots :
    LET p == reqs[r]
        q == reqs'[r]
    IN /\ (Arrives(r) /\ C2_Debit(q)) => q.pc = "select"
       /\ \A route \in {"saldo", "actualizar"} :
            /\ (StepAt(r, route, "select") /\ q.io.dbOk) =>
                 q.loc.rows = BalancesOf(users, C2_User(p))
            /\ (/\ StepAt(r, route, "selected") /\ p.io.dbOk
                /\ Len(p.loc.rows) > 0
                /\ IsNeg(C2_Candidate(p, p.loc.rows[1].saldo))) =>
                 /\ q.pc = "done" /\ q.status = 400
                 /\ q.resp = Msg("Saldo insuficiente")
                 /\ ~q.wrote
                 /\ users' = users
            /\ (q.route = route /\ q.pc = "update") =>
                 ~IsNeg(q.loc.newSaldo)

\* C2: a debit request (POST /user/saldo, POST /user/actualizar) has its
\* handler read the balance of its user, and when current + delta is below
\* zero it is answered 400 "Saldo insuficiente" without an UPDATE, having
\* changed no balance (checked where no statement threw).
C2_DebitRejected == [][C2_Step]_vars

\* a PUT /user/updateSaldo request that passed authMiddleware, of a caller
\* whose row does not have isAdmin = 1
C3_NonAdminCaller(q) ==
  /\ q.route = "updateSaldo"
  /\ q.user # NoUser
  /\ users[q.user.userId].isAdmin # 1
C3_BadBody(q) == q.body.email = "" \/ q.body.saldo.type # "number"

\* C3 as stated: every PUT /user/updateSaldo request with a valid token of a
\* non-admin caller is answered 403, whatever the body.
C3_NonAdminAlways403 ==
  \A r \in Slots :
    (C3_NonAdminCaller(reqs[r]) /\ reqs[r].pc = "done") =>
      reqs[r].status = 403

\* such a request gets no further than its admin lookup and writes nothing
C3_Refused(q) ==
  C3_NonAdminCaller(q) =>
    /\ q.pc \in {"check", "checked", "done"}
    /\ ~q.wrote
    /\ q.pc = "done" =>
         q.status = IF C3_BadBody(q) THEN 400
                    ELSE IF ~q.io.dbOk THEN 500
                    ELSE 403
C3_Step ==
  \A r \in Slots :
    LET p == reqs[r]
        q == reqs'[r]
    IN /\ C3_Refused(q)
       /\ (q # p /\ C3_NonAdminCaller(q)) => users' = users
       /\ (Arrives(r) /\ C3_NonAdminCaller(q)) =>
            IF C3_BadBody(q) THEN q.pc = "done" ELSE q.pc = "check"
       /\ (StepAt(r, "updateSaldo", "check") /\ q.io.dbOk) =>
            q.loc.rows = <<[isAdmin |-> users[p.user.userId].isAdmin]>>
       /\ (StepAt(r, "updateSaldo", "checked") /\ C3_NonAdminCaller(p)) =>
            q.pc = "done"

\* C3 amended: such a request is refused and changes no row: it is answered
\* 400 on arrival when the body lacks an email or a numeric saldo; otherwise
\* the handler looks up the caller's admin flag and, resumed, answers 500
\* when the lookup threw and 403 when it did not; no step of the request
\* changes the users table and no statement after the lookup is issued.
C3_NonAdminRefused == [][C3_Step]_vars

C3_Witness ==
  \E r \in Slots :
    /\ C3_NonAdminCaller(reqs[r])
    /\ reqs[r].body.saldo = JNum(One)
    /\ reqs[r].pc = "done" /\ reqs[r].io.dbOk
    /\ reqs[r].status = 403

C4_Step ==
  \A r \in Slots :
    LET p == reqs[r]
        q == reqs'[r]
    IN /\ (StepAt(r, "register", "select") /\ q.io.dbOk) =>
            q.loc.rows = RowsOf(users, p.body.email)
       /\ (/\ StepAt(r, "register", "selected") /\ p.io.dbOk
           /\ Len(p.loc.rows) > 0) =>
            /\ q.pc = "done"
            /\ q.status = 400
            /\ users' = users

\* C4: a register request with every field, whose SELECT by email finds the
\* email stored, is answered 400 when its handler resumes and adds no row
\* (checked where the reCAPTCHA call and the statement did not throw).
C4_DuplicateRegisterRejected == [][C4_Step]_vars

\* the validator turned the request away: the handler has not run
C5_TurnedAway(q, message) ==
  /\ q.pc = "done" /\ q.status = 401
  /\ q.resp = Msg(message)
  /\ q.user = NoUser /\ q.loc = NoLoc /\ ~q.wrote
C5_Step ==
  \A r \in Slots :
    LET q == reqs'[r]
    IN /\ (Arrives(r) /\ Protected(q)) =>
            /\ users' = users /\ purchases' = purchases
            /\ IF q.token = NoToken
               THEN C5_TurnedAway(q, "No token provided")
               ELSE IF ~C5_Valid(q.token, now)
               THEN C5_TurnedAway(q, "Invalid or expired token")
               ELSE /\ q.user = q.token.payload
                    /\ q.status # 401
                    /\ q.pc = "done" => q.status \in {400, 500}
       /\ (Answers(r) /\ ~Arrives(r) /\ Protected(q)) =>
            /\ q.status # 401
            /\ q.user = q.token.payload

\* C5: on a protected route the validator answers 401 "No token provided"
\* without running the handler when there is no token, 401 "Invalid or
\* expired token" without running the handler when the token is malformed,
\* tampered, wrongly signed or expired at the clock of the arrival, and
\* otherwise attaches the decoded claims and runs the handler, whose later
\* turns never answer 401, however late they run.
C5_SessionValidator == [][C5_Step]_vars

\* C5 (case): a token whose payload a client changed is turned away although
\* its expiry lies ahead.
C5_Witness ==
  \E r \in Slots :
    /\ Protected(reqs[r]) /\ reqs[r].pc = "done"
    /\ reqs[r].token.kind = "jwt" /\ reqs[r].token \notin issued
    /\ reqs[r].token.payload.exp > now
    /\ reqs[r].status = 401

\* every issued token expires an hour after its issue; an answer carries a
\* token only on login and register, issued at the clock of the answer
C6_Tokens ==
  /\ \A t \in issued :
       /\ t.payload.exp = t.payload.iat + OneHour
       /\ t.payload.iat <= now
  /\ \A r \in Slots :
       LET q == reqs[r]
       IN /\ (q.pc = "done" /\ "token" \in DOMAIN q.resp) =>
               /\ q.route \in {"login", "register"}
               /\ q.resp.token \in issued
               /\ q.resp.token.payload.iat = now
          /\ (q.pc = "done" /\ q.route = "login" /\ q.status = 200) =>
               "token" \in DOMAIN q.resp
          /\ (q.pc = "done" /\ q.route = "register" /\ q.status = 201
                /\ variant = "index") => "token" \in DOMAIN q.resp
C6_Step ==
  /\ C6_Tokens'
  /\ issued \subseteq issued'
  /\ JWT_SECRET' = JWT_SECRET
  /\ \A r \in Slots :
       (Arrives(r) /\ Protected(reqs'[r]) /\ reqs'[r].token \in issued) =>
         /\ reqs'[r].status = 401 <=>
              now >= reqs'[r].token.payload.iat + OneHour
         /\ reqs'[r].status # 401 => reqs'[r].user = reqs'[r].token.payload

\* C6: every token of a successful login or registration is issued at the
\* clock of the turn that answers, with exp = iat + 1 hour; a request that
\* presents an issued token is admitted by the validator when it arrives
\* before iat + 1 hour and turned away with 401 when it arrives at or after
\* it; no step removes an issued token, changes it or changes the secret.
C6_TokenLifetime == [][C6_Step]_vars

\* C6 (case): in the last second of its hour a token issued at the start is
\* admitted, by a request that its handler answers in the turn of its
\* arrival.
C6_Witness ==
  \E r \in Slots :
    /\ Protected(reqs[r]) /\ reqs[r].pc = "done"
    /\ reqs[r].token \in issued
    /\ now = reqs[r].token.payload.iat + OneHour - 1
    /\ reqs[r].user = reqs[r].token.payload
    /\ reqs[r].status # 401

\* the outcomes of a login request
C7_Missing(q) == q.body.email = "" \/ q.body.password = ""
C7_Mismatch(q) == ~bcryptCompare(q.body.password, q.loc.user.password)
C7_Refused(q, status) ==
  /\ q.pc = "done" /\ q.status = status
  /\ "token" \notin DOMAIN q.resp /\ "user" \notin DOMAIN q.resp
C7_Found(p, q) == q.pc = "compare" /\ q.loc.user = p.loc.rows[1]
C7_Session(q) ==
  /\ q.pc = "done" /\ q.status = 200
  /\ q.resp.token \in issued'
  /\ q.resp.token.payload.userId = q.loc.user.id
  /\ q.resp.user.id = q.loc.user.id
  /\ "password" \notin DOMAIN q.resp.user
\* a turn of a login request issues no token unless it answers with it
C7_NoToken(q) == q.pc # "done" => issued' = issued
\* the SELECT by email returns the rows stored when it executes
C7_Select(r) ==
  StepAt(r, "login", "select") =>
    /\ reqs'[r].pc = "selected"
    /\ reqs'[r].io.dbOk => reqs'[r].loc.rows = RowsOf(users, reqs[r].body.email)
C7_StepStated ==
  \A r \in Slots :
    LET p == reqs[r]
        q == reqs'[r]
    IN (q.route = "login" /\ q # p) =>
         /\ users' = users
         /\ C7_NoToken(q)
         /\ Arrives(r) =>
              IF C7_Missing(q) THEN C7_Refused(q, 400)
              ELSE q.pc \in {"captcha", "select"}
         /\ StepAt(r, "login", "captcha") => q.pc = "select"
         /\ C7_Select(r)
         /\ StepAt(r, "login", "selected") =>
              IF Len(p.loc.rows) = 0 THEN C7_Refused(q, 400)
              ELSE C7_Found(p, q)
         /\ StepAt(r, "login", "compare") =>
              IF C7_Mismatch(p) THEN C7_Refused(q, 400) ELSE C7_Session(q)

C7_Step ==
  \A r \in Slots :
    LET p == reqs[r]
        q == reqs'[r]
    IN (q.route = "login" /\ q # p) =>
         /\ users' = users
         /\ C7_NoToken(q)
         /\ Arrives(r) =>
              IF C7_Missing(q) THEN C7_Refused(q, 400)
              ELSE q.pc \in {"captcha", "select"}
         /\ StepAt(r, "login", "captcha") =>
              \/ q.pc = "select"
              \/ q.io.captcha = "throw" /\ C7_Refused(q, 500)
         /\ C7_Select(r)
         /\ StepAt(r, "login", "selected") =>
              IF ~p.io.dbOk THEN C7_Refused(q, 500)
              ELSE IF Len(p.loc.rows) = 0 THEN C7_Refused(q, 400)
              ELSE C7_Found(p, q)
         /\ StepAt(r, "login", "compare") =>
              IF C7_Mismatch(p) THEN C7_Refused(q, 400)
              ELSE IF JWT_SECRET = NoSecret THEN C7_Refused(q, 500)
              ELSE C7_Session(q)

C8_RoundTrip ==
  LET q == reqs[1]
  IN (/\ kept.route = "saldo" /\ kept.status = 200
      /\ ~IsNeg(kept.body.amount.v) /\ kept.body.amount.v # Zero
      /\ ~IsNeg(kept.loc.currentSaldo)
      /\ q.route = "saldo" /\ q.pc = "done" /\ q.status = 200
      /\ q.user.userId = kept.user.userId
      /\ q.body.amount = JNum(Neg(kept.body.amount.v))) =>
       /\ q.resp.newSaldo = kept.loc.currentSaldo
       /\ users[q.user.userId].saldo = kept.loc.currentSaldo

C9_Step ==
  \A r \in Slots :
    LET p == reqs[r]
        q == reqs'[r]
        u == p.token.payload.userId
        sum == JSAdd(p.loc.rows[1].saldo, p.body.amount.v)
    IN /\ (/\ Arrives(r) /\ q.route = "saldo"
           /\ C5_Valid(q.token, now)
           /\ q.body.amount.type = "number") =>
            q.pc = "select"
       /\ (StepAt(r, "saldo", "select") /\ q.io.dbOk) =>
            /\ q.pc = "selected"
            /\ q.loc.rows = BalancesOf(users, u)
       /\ (/\ StepAt(r, "saldo", "selected") /\ p.io.dbOk
           /\ Len(p.loc.rows) > 0
           /\ ~IsNeg(sum)) =>
            /\ q.pc = "update"
            /\ q.loc.userId = u /\ q.loc.newSaldo = sum
       /\ (StepAt(r, "saldo", "update") /\ q.io.dbOk) =>
            /\ q.pc = "updated"
            /\ users' = [users EXCEPT ![p.loc.userId].saldo = p.loc.newSaldo]
       /\ (StepAt(r, "saldo", "updated") /\ p.io.dbOk) =>
            /\ q.pc = "done"
            /\ q.status = 200
            /\ q.resp.newSaldo = p.loc.newSaldo
            /\ users' = users

\* C9: a POST /user/saldo with an unexpired token the login issued and a
\* number d has its handler read the balance B of the token's user; when
\* B + d >= 0 it goes on to its UPDATE with B + d, the UPDATE stores it for
\* that user and nothing else, and the handler then answers 200 with it
\* (checked where no statement threw).
C9_SaldoApplied == [][C9_Step]_vars

\* C10: a request answered with a failure status has changed nothing in the
\* users table.
C10_FailureChangesNothing ==
  \A r \in Slots :
    (reqs[r].pc = "done" /\ reqs[r].status >= 400) => ~reqs[r].wrote

\* the user row a balance request reads and writes, and the delta it asks for
C11_Target(q) ==
  IF q.route = "updateSaldo"
  THEN CHOOSE i \in DOMAIN users : users[i].email = q.body.email
  ELSE q.loc.userId
C11_Delta(q) ==
  IF q.route = "updateSaldo" THEN q.body.saldo.v
  ELSE q.body.amount.v
C11_Succeeded(q) ==
  /\ q.route \in {"saldo", "updateSaldo"}
  /\ q.status = 200
\* the answer delivered last and the answer of slot r are two successful
\* updates of one user's balance that both read the same balance B
C11_BothFrom(r) ==
  /\ reqs[r].pc = "done"
  /\ C11_Succeeded(kept) /\ C11_Succeeded(reqs[r])
  /\ C11_Target(kept) = C11_Target(reqs[r])
  /\ kept.loc.currentSaldo = reqs[r].loc.currentSaldo

\* C11: two balance updates of one user whose reads both found B and whose
\* writes both succeeded leave B + d1 or B + d2, the candidate of whichever
\* UPDATE the database executed later (in whatever order the two answers
\* are sent): the write is unconditional, so the other delta is lost.
C11_LaterWriteOverwrites ==
  \A r \in Slots :
    C11_BothFrom(r) =>
      users[C11_Target(reqs[r])].saldo \in
        {JSAdd(reqs[r].loc.currentSaldo, C11_Delta(reqs[r])),
         JSAdd(kept.loc.currentSaldo, C11_Delta(kept))}

\* C11 (the execution the claim names): both requests answered 200 from
\* balance B and the stored balance is not B + d1 + d2.
C11_Witness ==
  \E r \in Slots :
    /\ C11_BothFrom(r)
    /\ users[C11_Target(reqs[r])].saldo #
         JSAdd(JSAdd(reqs[r].loc.currentSaldo, C11_Delta(kept)),
               C11_Delta(reqs[r]))

\* the database executes the INSERT of the compras request of slot r
C12_Created(r) ==
  /\ StepAt(r, "compras", "insert")
  /\ reqs'[r].io.dbOk
\* the record a compras request asks for, owned by the user of its token
C12_Record(q) ==
  [items |-> <<"json", q.body.items>>,
   payment_method |-> q.body.payment_method,
   user_id |-> q.token.payload.userId, total_amount |-> q.body.total_amount.v]
C12_Step ==
  /\ IF \E r \in Slots : C12_Created(r)
     THEN \E r \in Slots :
            /\ C12_Created(r)
            /\ reqs[r].token \in issued
            /\ purchases' = Append(purchases, C12_Record(reqs[r]))
            /\ users' = users
     ELSE purchases' = purchases
  /\ \A r \in Slots :
       /\ (Arrives(r) /\ reqs'[r].route = "compras"
             /\ reqs'[r].pc = "insert") => C5_Valid(reqs'[r].token, now)
       /\ (reqs'[r].route = "compras" /\ Answers(r)) =>
            /\ (reqs'[r].status = 201) =
                 (reqs[r].pc = "inserted" /\ reqs[r].io.dbOk)
            /\ users' = users

\* C12: a POST /user/compras is answered 201 exactly when its INSERT has
\* executed; that INSERT appends exactly one purchase record, owned by the
\* user of the token the validator accepted when the request arrived, and
\* neither it nor the answer changes a balance; every other step of every
\* operation leaves the purchase records as they are, so a record, once
\* created, is never modified or removed.
C12_PurchasesOnlyGrow == [][C12_Step]_vars

\* C12 (case): a second purchase has been recorded, by a user whose balance
\* an earlier request had changed, in a request that was admitted before
\* its token expired and answered after; the first record is still there.
C12_Witness ==
  /\ reqs[1].route = "compras" /\ reqs[1].pc = "done" /\ reqs[1].status = 201
  /\ Len(purchases) = 2
  /\ purchases[2].user_id = reqs[1].token.payload.userId
  /\ users[reqs[1].token.payload.userId].saldo # Zero
  /\ now >= reqs[1].token.payload.exp

\* slot r holds the request whose UPDATE this step executes
C13_Writer(r) == reqs[r].pc = "update" /\ reqs'[r].pc = "updated"
C13_Step ==
  \A i \in DOMAIN users :
    users'[i].saldo # users[i].saldo =>
      \E r \in Slots :
        /\ C13_Writer(r)
        /\ reqs[r].token \in issued /\ reqs[r].user = reqs[r].token.payload
        /\ users[reqs[r].token.payload.userId].isAdmin # 1 =>
             i = reqs[r].token.payload.userId

\* C13: the balance of a stored user changes only in the UPDATE of a request
\* whose token the session validator accepted, and when that token's user is
\* not an administrator the balance changed is that user's own.
C13_BalanceChangeAuthorised == [][C13_Step]_vars

====
